---- MODULE Spec2Model ----
(***************************************************************************)
(* A model of bench_kernel.py: the MultienvBenchKernel pipeline            *)
(* (gather -> plain build -> sizes -> instrumented build + runtimes ->     *)
(* dispatch), its two datagram endpoints, the compiler subprocess it       *)
(* drives, the peers it serves and its cleanup on exit.                    *)
(*                                                                         *)
(* Bytes are integers 0..255; a byte string and a Python str are both      *)
(* sequences (of bytes, of code points).  A dict is a sequence of          *)
(* [k, v] records in insertion order, which is the order Python iterates.  *)
(***************************************************************************)
EXTENDS Integers, Sequences, FiniteSets, TLC

(* ---------------- bounds of the model ---------------- *)
MaxCycles == 2
MaxRegs == 2
MaxQueries == 2
MaxSignals == 1
MaxRuns == 1

(* ---------------- program constants ---------------- *)
AddrLimit == 107
MaxNameLen == 100
GccWaitTimeout == 30
FirstWait == 60
IdleWait == 5

(* ---------------- characters ---------------- *)
Chr ==
    [nul |-> 0, nl |-> 10, dot |-> 46, zero |-> 48, one |-> 49, two |-> 50, colon |-> 58,
     eq |-> 61, under |-> 95, b |-> 98, c |-> 99, f |-> 102, g |-> 103, h |-> 104,
     x |-> 120, z |-> 122]

(* ---------------- sequences and dicts ---------------- *)
Range(s) == {s[i] : i \in 1..Len(s)}

Keys(d) == {d[i].k : i \in 1..Len(d)}

HasKey(d, k) == k \in Keys(d)

Get(d, k) == (CHOOSE e \in Range(d) : e.k = k).v

\* d[k] = v of a Python dict: an existing key keeps its position.
Put(d, k, v) ==
    IF HasKey(d, k)
    THEN [i \in 1..Len(d) |-> IF d[i].k = k THEN [k |-> k, v |-> v] ELSE d[i]]
    ELSE Append(d, [k |-> k, v |-> v])

MaxOf(S) == CHOOSE m \in S : \A n \in S : n <= m

(* ---------------- UTF-8 ---------------- *)
IsCont(b, i) == i <= Len(b) /\ b[i] >= 128 /\ b[i] <= 191

\* The number of bytes of the well-formed UTF-8 sequence starting at b[i], 0 when
\* there is none (bytes.decode("utf-8") raises UnicodeDecodeError).
Utf8Width(b, i) ==
    LET c == b[i] IN
    IF c < 128 THEN 1
    ELSE IF c >= 194 /\ c <= 223 /\ IsCont(b, i + 1) THEN 2
    ELSE IF c >= 224 /\ c <= 239 /\ IsCont(b, i + 1) /\ IsCont(b, i + 2)
            /\ (c = 224 => b[i + 1] >= 160) /\ (c = 237 => b[i + 1] <= 159) THEN 3
    ELSE IF c >= 240 /\ c <= 244 /\ IsCont(b, i + 1) /\ IsCont(b, i + 2) /\ IsCont(b, i + 3)
            /\ (c = 240 => b[i + 1] >= 144) /\ (c = 244 => b[i + 1] <= 143) THEN 4
    ELSE 0

Utf8Point(b, i, w) ==
    IF w = 1 THEN b[i]
    ELSE IF w = 2 THEN ((b[i] - 192) * 64) + (b[i + 1] - 128)
    ELSE IF w = 3 THEN ((b[i] - 224) * 4096) + ((b[i + 1] - 128) * 64) + (b[i + 2] - 128)
    ELSE ((b[i] - 240) * 262144) + ((b[i + 1] - 128) * 4096) + ((b[i + 2] - 128) * 64) + (b[i + 3] - 128)

RECURSIVE Utf8DecodeFrom(_, _)
\* [ok, s]: the str decoded from b[i..], ok = FALSE when decoding raises.
Utf8DecodeFrom(b, i) ==
    IF i > Len(b) THEN [ok |-> TRUE, s |-> <<>>]
    ELSE LET w == Utf8Width(b, i) IN
         IF w = 0 THEN [ok |-> FALSE, s |-> <<>>]
         ELSE LET r == Utf8DecodeFrom(b, i + w) IN
              [ok |-> r.ok, s |-> <<Utf8Point(b, i, w)>> \o r.s]

Utf8Decode(b) == Utf8DecodeFrom(b, 1)

Utf8EncodePoint(p) ==
    IF p < 128 THEN <<p>>
    ELSE IF p < 2048 THEN <<192 + (p \div 64), 128 + (p % 64)>>
    ELSE IF p < 65536 THEN <<224 + (p \div 4096), 128 + ((p \div 64) % 64), 128 + (p % 64)>>
    ELSE <<240 + (p \div 262144), 128 + ((p \div 4096) % 64), 128 + ((p \div 64) % 64), 128 + (p % 64)>>

RECURSIVE Utf8Encode(_)
Utf8Encode(s) == IF s = <<>> THEN <<>> ELSE Utf8EncodePoint(Head(s)) \o Utf8Encode(Tail(s))

(* ---------------- numbers and packing ---------------- *)
RECURSIVE IntToStr(_)
\* str(n) for n >= 0
IntToStr(n) == IF n < 10 THEN <<Chr.zero + n>> ELSE IntToStr(n \div 10) \o <<Chr.zero + (n % 10)>>

IsDigit(c) == c >= Chr.zero /\ c <= Chr.zero + 9

RECURSIVE StrToInt(_)
\* int(s) for a string of ASCII digits; -1 stands for the ValueError of int("")
StrToInt(s) ==
    IF s = <<>> THEN -1
    ELSE IF Len(s) = 1 THEN s[1] - Chr.zero
    ELSE (StrToInt(SubSeq(s, 1, Len(s) - 1)) * 10) + (s[Len(s)] - Chr.zero)

\* struct.pack("i", n), little endian, n >= 0
PackInt(n) == <<n % 256, (n \div 256) % 256, (n \div 65536) % 256, (n \div 16777216) % 256>>

\* Floats are kept in hundredths (150 is 1.5). struct.pack("d", x): the IEEE-754
\* little endian image of the values the profile reports of the model carry.
PackDouble(x) ==
    IF x = 0 THEN <<0, 0, 0, 0, 0, 0, 0, 0>>
    ELSE IF x = 150 THEN <<0, 0, 0, 0, 0, 0, 248, 63>>
    ELSE IF x = 5000 THEN <<0, 0, 0, 0, 0, 0, 73, 64>>
    ELSE <<0, 0, 0, 0, 0, 0, 240, 63>>

\* struct.pack("ddi", percent, seconds, size)
PackRecord(percent, seconds, size) == PackDouble(percent) \o PackDouble(seconds) \o PackInt(size)

(* ---------------- the kernel's identity (command line, benchmark_info.txt) ---------------- *)
bench_name == <<Chr.b>>
instance == 1

Partition(s) ==
    IF Chr.dot \in Range(s)
    THEN SubSeq(s, 1, (CHOOSE i \in 1..Len(s) : s[i] = Chr.dot /\ \A j \in 1..(i - 1) : s[j] # Chr.dot) - 1)
    ELSE s

B64Alphabet ==
    <<65, 66, 67, 68, 69, 70, 71, 72, 73, 74, 75, 76, 77, 78, 79, 80, 81, 82, 83, 84, 85, 86,
      87, 88, 89, 90, 97, 98, 99, 100, 101, 102, 103, 104, 105, 106, 107, 108, 109, 110, 111,
      112, 113, 114, 115, 116, 117, 118, 119, 120, 121, 122, 48, 49, 50, 51, 52, 53, 54, 55,
      56, 57, 45, 95>>

RECURSIVE SumOf(_)
SumOf(s) == IF s = <<>> THEN 0 ELSE Head(s) + SumOf(Tail(s))

\* base64.b64encode(sha256(name).digest(), b"-_"): 32 bytes give 43 characters of
\* the URL-safe alphabet and one '=' of padding. The digest is stood for by a
\* deterministic mix of the name.
B64Sha256(name) ==
    [i \in 1..44 |->
        IF i = 44 THEN Chr.eq
        ELSE B64Alphabet[((SumOf(name) + (Len(name) * i) + (i * i)) % 64) + 1]]

\* avail_length of encode_fun_name for a kernel started with -n bn -i inst
avail_length_for(bn, inst) == AddrLimit - Len(bn) - Len(IntToStr(inst)) - 2

avail_length == avail_length_for(bench_name, instance)

\* encode_fun_name with >= for > in the test against avail_length
encode_fun_name_ge(bn, inst, fun_name) ==
    LET n == Partition(fun_name) IN
    IF Len(n) >= avail_length_for(bn, inst) \/ Len(n) > MaxNameLen THEN B64Sha256(n) ELSE n

\* encode_fun_name of a kernel started with -n bn -i inst; len() counts code points
encode_fun_name_for(bn, inst, fun_name) ==
    LET n == Partition(fun_name) IN
    IF Len(n) > avail_length_for(bn, inst) \/ Len(n) > MaxNameLen THEN B64Sha256(n) ELSE n

encode_fun_name(fun_name) == encode_fun_name_for(bench_name, instance, fun_name)

\* lines[index:] of benchmark_info.txt, in the declared order
DeclaredFunctions == << <<Chr.f>>, <<Chr.g>> >>

bench_symbols == [i \in 1..Len(DeclaredFunctions) |-> encode_fun_name(DeclaredFunctions[i])]

\* f"\0{bench_name}:{fun_name}_{instance}"
ComposeAddrFor(bn, inst, fun_name) ==
    <<Chr.nul>> \o bn \o <<Chr.colon>> \o fun_name \o <<Chr.under>> \o IntToStr(inst)

ComposeAddr(fun_name) == ComposeAddrFor(bench_name, instance, fun_name)

\* ---------------- re.match of add_env_to_list: NUL, any, colon, any, underscore, digits
AllDot(s, lo, hi) == \A i \in lo..hi : s[i] # Chr.nl

\* The pairs (position of ':', position of '_') the pattern can match with.
MatchCands(s) ==
    {pq \in (2..Len(s)) \X (2..Len(s)) :
        /\ pq[1] < pq[2]
        /\ s[pq[1]] = Chr.colon
        /\ s[pq[2]] = Chr.under
        /\ AllDot(s, 2, pq[1] - 1)
        /\ AllDot(s, pq[1] + 1, pq[2] - 1)}

DigitRun(s, from) ==
    LET ends == {e \in (from - 1)..Len(s) : \A i \in from..e : IsDigit(s[i])}
    IN SubSeq(s, from, MaxOf(ends))

\* Greedy groups: the last ':' that still leaves a '_' behind it, then the last '_'.
re_match(s) ==
    IF Len(s) = 0 \/ s[1] # Chr.nul \/ MatchCands(s) = {}
    THEN [ok |-> FALSE, g1 |-> <<>>, g2 |-> <<>>, g3 |-> <<>>]
    ELSE LET p == MaxOf({pq[1] : pq \in MatchCands(s)})
             q == MaxOf({pq[2] : pq \in {c \in MatchCands(s) : c[1] = p}})
         IN [ok |-> TRUE,
             g1 |-> SubSeq(s, 2, p - 1),
             g2 |-> SubSeq(s, p + 1, q - 1),
             g3 |-> DigitRun(s, q + 1)]


(* ---------------- inputs of the model ---------------- *)
\* Sender addresses of registrations, as the bytes recvfrom returns.
AddrF == Utf8Encode(ComposeAddr(<<Chr.f>>))
AddrG == Utf8Encode(ComposeAddr(<<Chr.g>>))
AddrWrongBench == <<Chr.nul, Chr.x, Chr.colon, Chr.f, Chr.under, Chr.one>>
AddrWrongInstance == <<Chr.nul, Chr.b, Chr.colon, Chr.f, Chr.under, Chr.two>>
AddrUnknownFunction == <<Chr.nul, Chr.b, Chr.colon, Chr.h, Chr.under, Chr.one>>
AddrNoColon == <<Chr.nul, Chr.b, Chr.f, Chr.under, Chr.one>>
AddrNoInstance == <<Chr.nul, Chr.b, Chr.colon, Chr.f, Chr.under>>
AddrNotUtf8 == <<Chr.nul, 255, Chr.colon, Chr.f, Chr.under, Chr.one>>

PeerAddrs == {AddrF, AddrG}
StrayAddrs ==
    {AddrWrongBench, AddrWrongInstance, AddrUnknownFunction, AddrNoColon, AddrNoInstance,
     AddrNotUtf8}

\* PassList payloads of registrations, by sender
PassLists(a) == IF a = AddrF THEN {<<1, 2>>, <<3>>} ELSE {<<3>>}

\* Function names the compiler asks about: f.c (a clone of f) and g
QueryNames == {<<Chr.f, Chr.dot, Chr.c>>, <<Chr.g>>}

\* Feature payloads of the compiler
Embeddings == {<<170, 187, 204, 221>>}

\* Rows (name, size) of the symbol size dump of main.elf
NmReports ==
    {<<[name |-> <<Chr.f>>, size |-> 128]>>,
     <<[name |-> <<Chr.g>>, size |-> 64], [name |-> <<Chr.f>>, size |-> 128]>>}

\* Flat profiles: "none" is the report of no accumulated time, else rows
\* (name, percent, seconds) in hundredths.
GprofReports ==
    {[notime |-> TRUE, rows |-> <<>>],
     [notime |-> FALSE, rows |-> <<>>],
     [notime |-> FALSE, rows |-> <<[name |-> <<Chr.f>>, percent |-> 5000, seconds |-> 150]>>]}

\* The lines "long_functions:" and "functions:" of benchmark_info.txt
LongHeader == <<108, 111, 110, 103, 95, 102, 117, 110, 99, 116, 105, 111, 110, 115, 58>>

FunctionsHeader == <<102, 117, 110, 99, 116, 105, 111, 110, 115, 58>>

\* benchmark_info.txt, stripped line by line: one descriptor that declares f
\* long-running, one that declares no long-running subset
DescWithLong == <<LongHeader, <<Chr.f>>, FunctionsHeader>> \o DeclaredFunctions

DescPlain == <<FunctionsHeader>> \o DeclaredFunctions

Descriptors == {DescWithLong, DescPlain}

\* lines.index(x), 1-based; 0 stands for the ValueError of a missing line
IndexOf(lines, x) ==
    IF \E i \in 1..Len(lines) : lines[i] = x
    THEN CHOOSE i \in 1..Len(lines) : lines[i] = x /\ \A j \in 1..(i - 1) : lines[j] # x
    ELSE 0

\* self.long_functions: the encoded lines from "long_functions:" up to and
\* including "functions:", or bench_symbols when there is no "long_functions:" line
long_functions_of(lines) ==
    LET index == IndexOf(lines, FunctionsHeader)
        long_fun_index == IndexOf(lines, LongHeader)
    IN IF long_fun_index = 0
       THEN Range(bench_symbols)
       ELSE {encode_fun_name(lines[i]) : i \in long_fun_index..index}

LongFunctionsChoices == {long_functions_of(d) : d \in Descriptors}

EmptyMap == [x \in {} |-> 0]

\* The record of an exchange: the query read, the reply sent for it, the payload
\* received after it; reads and replies count the queries read and the replies
\* sent in the build.
NoExchange ==
    [reads |-> 0, replies |-> 0, query |-> <<>>, replied |-> FALSE, reply |-> <<>>,
     got |-> FALSE, payload |-> <<>>]

MapPut(m, k, v) == [x \in (DOMAIN m) \cup {k} |-> IF x = k THEN v ELSE m[x]]

(* ---------------- state ---------------- *)
VARIABLES
    pc,                  \* the kernel's position
    exc,                 \* the exception kernel_loop caught, "none" before
    fatal,               \* where that exception was raised
    exit_code,           \* the process's exit status, -1 while it runs
    signals,             \* signals delivered so far
    timeout,             \* env_socket's timeout, -1 for None
    afl_defined,         \* whether self.active_funcs_lists was ever assigned
    active_funcs_lists,
    embeddings,
    sizes,
    runtimes,
    long_functions,
    env_q,               \* datagrams queued on env_socket
    bound,               \* peer addresses that are bound
    regs_sent,
    procs,               \* the compiler subprocesses ever started
    gcc_instance,        \* index into procs, 0 for None
    gcc_q,               \* datagrams queued on gcc_socket
    fun_name,            \* the query being served
    xlog,                \* the last exchange of the current build
    probe_idx,
    probes,              \* probes of the current pass
    send_idx,
    sent,                \* send attempts of the current dispatch
    diag,                \* keys reported "not properly profiled" in the current dispatch
    gmon_out,
    gmon_sum,
    run_idx,
    cleanup_log,         \* what final_cleanup did, in order
    cycle,
    enc                  \* args.bench_name, args.instance and the last call of encode_fun_name

vars ==
    <<pc, exc, fatal, exit_code, signals, timeout, afl_defined, active_funcs_lists,
      embeddings, sizes, runtimes, long_functions, env_q, bound, regs_sent,
      procs, gcc_instance, gcc_q, fun_name, xlog, probe_idx, probes, send_idx, sent, diag,
      gmon_out, gmon_sum, run_idx, cleanup_log, cycle, enc>>

kernel_vars ==
    <<pc, exc, fatal, exit_code, timeout, afl_defined, active_funcs_lists, embeddings,
      sizes, runtimes, gcc_instance, fun_name, xlog, probe_idx, probes, send_idx, sent,
      diag, gmon_out, gmon_sum, run_idx, cleanup_log, cycle>>

config_vars == <<long_functions, enc>>

\* No call of encode_fun_name looked at yet, for a kernel started with -n bn -i inst.
NoCall(bn, inst) == [bench_name |-> bn, instance |-> inst, name |-> <<>>, out |-> <<>>, calls |-> 0]

\* The state after __init__: both sockets bound, no compiler, no per-cycle table yet.
InitKernel ==
    /\ pc = "loop_head"
    /\ exc = "none"
    /\ fatal = "none"
    /\ exit_code = -1
    /\ signals = 0
    /\ timeout = -1
    /\ afl_defined = FALSE
    /\ active_funcs_lists = <<>>
    /\ embeddings = EmptyMap
    /\ sizes = EmptyMap
    /\ runtimes = EmptyMap
    /\ long_functions \in LongFunctionsChoices
    /\ env_q = <<>>
    /\ bound = PeerAddrs
    /\ regs_sent = 0
    /\ procs = <<>>
    /\ gcc_instance = 0
    /\ gcc_q = <<>>
    /\ fun_name = <<>>
    /\ xlog = NoExchange
    /\ probe_idx = 0
    /\ probes = <<>>
    /\ send_idx = 0
    /\ sent = <<>>
    /\ diag = {}
    /\ gmon_out = FALSE
    /\ gmon_sum = FALSE
    /\ run_idx = 0
    /\ cleanup_log = <<>>
    /\ cycle = 0

Init == InitKernel /\ enc = NoCall(bench_name, instance)

(* ---------------- exceptions ---------------- *)
\* The exit status of the interpreter when kernel_loop re-raises e.
ExitCodeOf(e) ==
    IF e = "SystemExit(0)" THEN 0
    ELSE IF e = "KeyboardInterrupt" THEN 130
    ELSE 1

\* An exception leaves the try block of kernel_loop: the except clause is entered.
Raise(e, where) ==
    /\ pc' = "cleanup"
    /\ exc' = e
    /\ fatal' = where

(* ---------------- gather_active_envs ---------------- *)
\* validate_addr without the test against bench_symbols
validate_addr_nosym(m) ==
    IF ~m.ok THEN "TypeError"
    ELSE IF m.g1 # bench_name THEN "SystemExit(1)"
    ELSE IF m.g3 = <<>> THEN "ValueError"
    ELSE IF StrToInt(m.g3) # instance THEN "SystemExit(1)"
    ELSE "none"

validate_addr(m) ==
    IF ~m.ok THEN "TypeError"
    ELSE IF m.g1 # bench_name THEN "SystemExit(1)"
    ELSE IF m.g3 = <<>> THEN "ValueError"
    ELSE IF StrToInt(m.g3) # instance THEN "SystemExit(1)"
    ELSE IF m.g2 \notin Range(bench_symbols) THEN "SystemExit(1)"
    ELSE "none"

\* add_env_to_list that keeps the pass list a function already has
add_env_to_list_first(afl, pass_list, addr) ==
    LET dec == Utf8Decode(addr)
        m == re_match(dec.s)
        e == IF ~dec.ok THEN "UnicodeDecodeError" ELSE validate_addr(m)
    IN [exc |-> e,
        afl |-> IF e = "none" /\ ~HasKey(afl, m.g2) THEN Put(afl, m.g2, pass_list) ELSE afl]

\* [exc, afl]: the exception add_env_to_list raises ("none" when it returns), and
\* self.active_funcs_lists afterwards.
add_env_to_list(afl, pass_list, addr) ==
    LET dec == Utf8Decode(addr)
        m == re_match(dec.s)
        e == IF ~dec.ok THEN "UnicodeDecodeError" ELSE validate_addr(m)
    IN [exc |-> e, afl |-> IF e = "none" THEN Put(afl, m.g2, pass_list) ELSE afl]

\* gather_reset that keeps the pass lists of the cycle before
gather_reset_keep ==
    /\ pc = "loop_head"
    /\ cycle < MaxCycles
    /\ pc' = "wait_first"
    /\ active_funcs_lists' = active_funcs_lists
    /\ afl_defined' = TRUE
    /\ timeout' = FirstWait
    /\ sent' = <<>>
    /\ diag' = {}
    /\ UNCHANGED <<exc, fatal, exit_code, embeddings, sizes, runtimes, gcc_instance,
                   fun_name, xlog, probe_idx, probes, send_idx, gmon_out, gmon_sum, run_idx,
                   cleanup_log, cycle>>
    /\ UNCHANGED <<signals, config_vars, env_q, bound, regs_sent, procs, gcc_q>>

\* The top of the loop of kernel_loop and the top of the loop of gather_active_envs.
gather_reset ==
    /\ pc = "loop_head"
    /\ cycle < MaxCycles
    /\ pc' = "wait_first"
    /\ active_funcs_lists' = <<>>
    /\ afl_defined' = TRUE
    /\ timeout' = FirstWait
    /\ sent' = <<>>
    /\ diag' = {}
    /\ UNCHANGED <<exc, fatal, exit_code, embeddings, sizes, runtimes, gcc_instance,
                   fun_name, xlog, probe_idx, probes, send_idx, gmon_out, gmon_sum, run_idx,
                   cleanup_log, cycle>>
    /\ UNCHANGED <<signals, config_vars, env_q, bound, regs_sent, procs, gcc_q>>

recv_registration(first) ==
    /\ pc = (IF first THEN "wait_first" ELSE "collecting")
    /\ env_q # <<>>
    /\ LET r == add_env_to_list(active_funcs_lists, Head(env_q).data, Head(env_q).addr) IN
       IF r.exc = "none"
       THEN /\ active_funcs_lists' = r.afl
            /\ pc' = "collecting"
            /\ timeout' = IdleWait
            /\ UNCHANGED <<exc, fatal>>
       ELSE /\ Raise(r.exc, "protocol")
            /\ UNCHANGED <<active_funcs_lists, timeout>>
    /\ env_q' = Tail(env_q)
    /\ UNCHANGED <<exit_code, afl_defined, embeddings, sizes, runtimes, gcc_instance,
                   fun_name, xlog, probe_idx, probes, send_idx, sent, diag, gmon_out,
                   gmon_sum, run_idx, cleanup_log, cycle>>
    /\ UNCHANGED <<signals, config_vars, bound, regs_sent, procs, gcc_q>>

recv_first == recv_registration(TRUE)

recv_more == recv_registration(FALSE)

\* recvfrom times out in the first wait: the probe pass starts.
first_wait_timeout ==
    /\ pc = "wait_first"
    /\ env_q = <<>>
    /\ pc' = "probe"
    /\ probe_idx' = 1
    /\ probes' = <<>>
    /\ UNCHANGED <<exc, fatal, exit_code, timeout, afl_defined, active_funcs_lists,
                   embeddings, sizes, runtimes, gcc_instance, fun_name, xlog, send_idx, sent,
                   diag, gmon_out, gmon_sum, run_idx, cleanup_log, cycle>>
    /\ UNCHANGED <<signals, config_vars, env_q, bound, regs_sent, procs, gcc_q>>

\* recvfrom times out in the idle window: the snapshot is closed.
collect_timeout ==
    /\ pc = "collecting"
    /\ env_q = <<>>
    /\ pc' = "cfs_start"
    /\ timeout' = -1
    /\ UNCHANGED <<exc, fatal, exit_code, afl_defined, active_funcs_lists, embeddings,
                   sizes, runtimes, gcc_instance, fun_name, xlog, probe_idx, probes,
                   send_idx, sent, diag, gmon_out, gmon_sum, run_idx, cleanup_log, cycle>>
    /\ UNCHANGED <<signals, config_vars, env_q, bound, regs_sent, procs, gcc_q>>

\* probe_failed without the exit(0): the kernel waits again
probe_failed_retry ==
    IF probe_idx < Len(bench_symbols)
    THEN /\ probe_idx' = probe_idx + 1
         /\ UNCHANGED <<pc, exc, fatal>>
    ELSE /\ pc' = "wait_first"
         /\ UNCHANGED <<exc, fatal, probe_idx>>

\* The probe of bench_symbols[probe_idx] raised (or a signal's exception was caught by
\* the bare except): continue, and exit(0) after the last symbol.
probe_failed ==
    IF probe_idx < Len(bench_symbols)
    THEN /\ probe_idx' = probe_idx + 1
         /\ UNCHANGED <<pc, exc, fatal>>
    ELSE /\ Raise("SystemExit(0)", "no_peers")
         /\ UNCHANGED probe_idx

\* One iteration of the for loop over bench_symbols.
probe_step ==
    /\ pc = "probe"
    /\ LET sym == bench_symbols[probe_idx]
           to == Utf8Encode(ComposeAddr(sym))
       IN IF to \in bound
          THEN /\ probes' = Append(probes, [sym |-> sym, ok |-> TRUE])
               /\ pc' = "wait_first"
               /\ active_funcs_lists' = <<>>
               /\ timeout' = FirstWait
               /\ UNCHANGED <<exc, fatal, probe_idx>>
          ELSE /\ probes' = Append(probes, [sym |-> sym, ok |-> FALSE])
               /\ probe_failed
               /\ UNCHANGED <<active_funcs_lists, timeout>>
    /\ UNCHANGED <<exit_code, afl_defined, embeddings, sizes, runtimes, gcc_instance,
                   fun_name, xlog, send_idx, sent, diag, gmon_out, gmon_sum, run_idx,
                   cleanup_log, cycle>>
    /\ UNCHANGED <<signals, config_vars, env_q, bound, regs_sent, procs, gcc_q>>

(* ---------------- final_cleanup and the re-raise of kernel_loop ---------------- *)
\* The process ends with status code: its memory and its two sockets, with what was
\* queued on them, are gone. What it printed, sent and removed stays.
process_ends(code) ==
    /\ pc' = "done"
    /\ exit_code' = code
    /\ embeddings' = EmptyMap
    /\ sizes' = EmptyMap
    /\ runtimes' = EmptyMap
    /\ fun_name' = <<>>
    /\ xlog' = NoExchange
    /\ timeout' = -1
    /\ probe_idx' = 0
    /\ send_idx' = 0
    /\ run_idx' = 0
    /\ env_q' = <<>>
    /\ gcc_q' = <<>>
    /\ UNCHANGED <<exc, fatal, afl_defined, active_funcs_lists, gcc_instance, probes, sent,
                   diag, gmon_out, gmon_sum, cycle>>
    /\ UNCHANGED <<config_vars, bound, regs_sent, procs>>

\* The isinstance test with the print of the pass lists, then gcc_instance.wait(30),
\* which returns when the subprocess has exited or after 30 s. Reading an attribute
\* that was never assigned raises AttributeError out of the except clause.
cleanup_wait ==
    /\ pc = "cleanup"
    /\ LET printed == IF exc = "SystemExit(1)" THEN <<[op |-> "print", arg |-> <<>>]>> ELSE <<>>
           waited == IF gcc_instance # 0
                     THEN <<[op |-> "wait", arg |-> <<GccWaitTimeout>>]>>
                     ELSE <<>>
       IN IF exc = "SystemExit(1)" /\ ~afl_defined
          THEN /\ process_ends(ExitCodeOf("AttributeError"))
               /\ UNCHANGED cleanup_log
          ELSE /\ cleanup_log' = cleanup_log \o printed \o waited
               /\ pc' = "cleanup_rm"
               /\ UNCHANGED <<exc, fatal, exit_code, timeout, afl_defined, active_funcs_lists,
                              embeddings, sizes, runtimes, gcc_instance, fun_name, xlog,
                              probe_idx, probes, send_idx, sent, diag, gmon_out, gmon_sum,
                              run_idx, cycle>>
               /\ UNCHANGED <<config_vars, env_q, bound, regs_sent, procs, gcc_q>>
    /\ UNCHANGED signals

StartsWith(s, prefix) == Len(s) >= Len(prefix) /\ SubSeq(s, 1, Len(prefix)) = prefix

\* cwd.startswith("/tmp") or cwd.startswith("/run")
under_scratch(cwd) ==
    StartsWith(cwd, <<47, 116, 109, 112>>) \/ StartsWith(cwd, <<47, 114, 117, 110>>)

\* Working directories: /tmp/k and /srv
Cwds == {<<47, 116, 109, 112, 47, 107>>, <<47, 115, 114, 118>>}

\* rmtree(cwd) or unlink(socket_name), then raise e: the interpreter exits.
cleanup_remove ==
    /\ pc = "cleanup_rm"
    /\ \E cwd \in Cwds :
          cleanup_log' = Append(cleanup_log, [op |-> IF under_scratch(cwd) THEN "rmtree" ELSE "unlink",
                                              arg |-> cwd])
    /\ process_ends(ExitCodeOf(exc))
    /\ UNCHANGED signals

(* ---------------- the compiler subprocess (environment) ---------------- *)
\* os.path.exists(self.gcc_name): the plugin binds its endpoint when it starts to
\* listen and the endpoint goes away with the subprocess.
gcc_name_exists == \E p \in 1..Len(procs) : procs[p].st \in {"listening", "asked"}

Listener == CHOOSE p \in 1..Len(procs) : procs[p].st \in {"listening", "asked"}

Running == {p \in 1..Len(procs) : procs[p].st # "exited"}

gcc_listen(p) ==
    /\ pc # "done"
    /\ procs[p].st = "starting"
    /\ procs' = [procs EXCEPT ![p].st = "listening", ![p].listened = TRUE]
    /\ UNCHANGED <<kernel_vars, signals, config_vars, env_q, bound, regs_sent, gcc_q>>

\* The plugin asks for the pass list of function q and waits for the reply.
gcc_query(p, q) ==
    /\ pc # "done"
    /\ procs[p].st = "listening"
    /\ procs[p].nq < MaxQueries
    /\ procs' = [procs EXCEPT ![p].st = "asked", ![p].nq = @ + 1]
    /\ gcc_q' = Append(gcc_q, Utf8Encode(q))
    /\ UNCHANGED <<kernel_vars, signals, config_vars, env_q, bound, regs_sent>>

\* The plugin has its reply and sends the feature payload.
gcc_embed(p, e) ==
    /\ pc # "done"
    /\ procs[p].st = "asked"
    /\ procs[p].inbox > 0
    /\ procs' = [procs EXCEPT ![p].st = "listening", ![p].inbox = @ - 1]
    /\ gcc_q' = Append(gcc_q, e)
    /\ UNCHANGED <<kernel_vars, signals, config_vars, env_q, bound, regs_sent>>

\* The subprocess exits: with a failure status at any point of the exchange, with
\* status 0 only between two exchanges.
gcc_exit(p, rc) ==
    /\ pc # "done"
    /\ procs[p].st # "exited"
    /\ rc = 0 => procs[p].st \in {"starting", "listening"}
    /\ procs' = [procs EXCEPT ![p].st = "exited", ![p].rc = rc, ![p].inbox = 0, ![p].nq = 0]
    /\ UNCHANGED <<kernel_vars, signals, config_vars, env_q, bound, regs_sent, gcc_q>>

(* ---------------- compile_for_size and compile_instrumented ---------------- *)
PcOf ==
    [plain |-> [start |-> "cfs_start", handshake |-> "cfs_handshake", loop |-> "cfs_loop",
                reply |-> "cfs_reply", recv_emb |-> "cfs_recv_emb", next |-> "get_sizes"],
     instr |-> [start |-> "ci_start", handshake |-> "ci_handshake", loop |-> "ci_loop",
                reply |-> "ci_reply", recv_emb |-> "ci_recv_emb", next |-> "gr_run"]]

Modes == {"plain", "instr"}

\* self.embeddings = {} (plain build only) and Popen
popen(mode) ==
    /\ pc = PcOf[mode].start
    /\ embeddings' = IF mode = "plain" THEN EmptyMap ELSE embeddings
    /\ procs' = Append(procs, [st |-> "starting", rc |-> -1, inbox |-> 0, nq |-> 0,
                               listened |-> FALSE, mode |-> mode, cyc |-> cycle])
    /\ gcc_instance' = Len(procs) + 1
    /\ xlog' = NoExchange
    /\ pc' = PcOf[mode].handshake
    /\ UNCHANGED <<exc, fatal, exit_code, timeout, afl_defined, active_funcs_lists, sizes,
                   runtimes, fun_name, probe_idx, probes, send_idx, sent, diag, gmon_out,
                   gmon_sum, run_idx, cleanup_log, cycle>>
    /\ UNCHANGED <<signals, config_vars, env_q, bound, regs_sent, gcc_q>>

\* The loop on os.path.exists(gcc_name): it ends when the endpoint is there, and
\* with exit(1) when the subprocess has a return code first.
handshake(mode) ==
    /\ pc = PcOf[mode].handshake
    /\ IF gcc_name_exists
       THEN /\ pc' = PcOf[mode].loop
            /\ UNCHANGED <<exc, fatal>>
       ELSE /\ procs[gcc_instance].st = "exited"
            /\ Raise("SystemExit(1)", "startup")
    /\ UNCHANGED <<exit_code, timeout, afl_defined, active_funcs_lists, embeddings, sizes,
                   runtimes, gcc_instance, fun_name, xlog, probe_idx, probes, send_idx, sent,
                   diag, gmon_out, gmon_sum, run_idx, cleanup_log, cycle>>
    /\ UNCHANGED <<signals, config_vars, env_q, bound, regs_sent, procs, gcc_q>>

\* exchange_exit that leaves the loop when no datagram waits and polls instead of waiting
exchange_exit_early(mode) ==
    /\ pc = PcOf[mode].loop
    /\ gcc_q = <<>>
    /\ IF procs[gcc_instance].rc \notin {-1, 0}
       THEN Raise("SystemExit(1)", "gcc_failed")
       ELSE /\ pc' = PcOf[mode].next
            /\ UNCHANGED <<exc, fatal>>
    /\ run_idx' = 0
    /\ fun_name' = <<>>
    /\ xlog' = NoExchange
    /\ UNCHANGED <<exit_code, timeout, afl_defined, active_funcs_lists, embeddings, sizes,
                   runtimes, gcc_instance, probe_idx, probes, send_idx, sent,
                   diag, gmon_out, gmon_sum, cleanup_log, cycle>>
    /\ UNCHANGED <<signals, config_vars, env_q, bound, regs_sent, procs, gcc_q>>

\* exchange_exit that does not look at the exit status
exchange_exit_anystatus(mode) ==
    /\ pc = PcOf[mode].loop
    /\ procs[gcc_instance].st = "exited"
    /\ pc' = PcOf[mode].next
    /\ run_idx' = 0
    /\ fun_name' = <<>>
    /\ xlog' = NoExchange
    /\ UNCHANGED <<exc, fatal, exit_code, timeout, afl_defined, active_funcs_lists,
                   embeddings, sizes, runtimes, gcc_instance, probe_idx, probes, send_idx,
                   sent, diag, gmon_out, gmon_sum, cleanup_log, cycle>>
    /\ UNCHANGED <<signals, config_vars, env_q, bound, regs_sent, procs, gcc_q>>

\* poll() is not None: the exchange loop ends; wait() returns the status at once,
\* and a status other than 0 is exit(1).
exchange_exit(mode) ==
    /\ pc = PcOf[mode].loop
    /\ procs[gcc_instance].st = "exited"
    /\ IF procs[gcc_instance].rc # 0
       THEN Raise("SystemExit(1)", "gcc_failed")
       ELSE /\ pc' = PcOf[mode].next
            /\ UNCHANGED <<exc, fatal>>
    /\ run_idx' = 0
    /\ fun_name' = <<>>
    /\ xlog' = NoExchange
    /\ UNCHANGED <<exit_code, timeout, afl_defined, active_funcs_lists, embeddings, sizes,
                   runtimes, gcc_instance, probe_idx, probes, send_idx, sent,
                   diag, gmon_out, gmon_sum, cleanup_log, cycle>>
    /\ UNCHANGED <<signals, config_vars, env_q, bound, regs_sent, procs, gcc_q>>

\* recv(4096, MSG_DONTWAIT) returns a datagram: the query, decoded.
exchange_recv(mode) ==
    /\ pc = PcOf[mode].loop
    /\ procs[gcc_instance].st # "exited"
    /\ gcc_q # <<>>
    /\ gcc_q' = Tail(gcc_q)
    /\ LET dec == Utf8Decode(Head(gcc_q)) IN
       IF dec.ok
       THEN /\ fun_name' = dec.s
            /\ xlog' = [reads |-> xlog.reads + 1, replies |-> xlog.replies, query |-> dec.s,
                        replied |-> FALSE, reply |-> <<>>, got |-> FALSE, payload |-> <<>>]
            /\ pc' = PcOf[mode].reply
            /\ UNCHANGED <<exc, fatal>>
       ELSE /\ Raise("UnicodeDecodeError", "bridge")
            /\ UNCHANGED <<fun_name, xlog>>
    /\ UNCHANGED <<exit_code, timeout, afl_defined, active_funcs_lists, embeddings, sizes,
                   runtimes, gcc_instance, probe_idx, probes, send_idx, sent, diag,
                   gmon_out, gmon_sum, run_idx, cleanup_log, cycle>>
    /\ UNCHANGED <<signals, config_vars, env_q, bound, regs_sent, procs>>

\* reply_for that looks the raw name up, without encode_fun_name
reply_for_raw(afl, name) == IF HasKey(afl, name) THEN Get(afl, name) ELSE <<0>>

\* The datagram sent back for a query: the stored pass list, or bytes(1).
reply_for(afl, name) ==
    LET sock_fun_name == encode_fun_name(name) IN
    IF HasKey(afl, sock_fun_name) THEN Get(afl, sock_fun_name) ELSE <<0>>

\* sendto(reply, gcc_name): delivered to the listening plugin, an error when no
\* socket is bound to the name any more.
exchange_reply(mode) ==
    /\ pc = PcOf[mode].reply
    /\ IF gcc_name_exists
       THEN /\ procs' = [procs EXCEPT ![Listener].inbox = @ + 1]
            /\ xlog' = [xlog EXCEPT !.replied = TRUE, !.replies = @ + 1,
                                    !.reply = reply_for(active_funcs_lists, fun_name)]
            /\ pc' = PcOf[mode].recv_emb
            /\ UNCHANGED <<exc, fatal>>
       ELSE /\ Raise("FileNotFoundError", "bridge")
            /\ UNCHANGED <<procs, xlog>>
    /\ UNCHANGED <<exit_code, timeout, afl_defined, active_funcs_lists, embeddings, sizes,
                   runtimes, gcc_instance, fun_name, probe_idx, probes, send_idx, sent, diag,
                   gmon_out, gmon_sum, run_idx, cleanup_log, cycle>>
    /\ UNCHANGED <<signals, config_vars, env_q, bound, regs_sent, gcc_q>>

\* The blocking recv of the feature payload; the plain build stores it, with its
\* length in front, when the function has a pass list.
exchange_recv_emb(mode) ==
    /\ pc = PcOf[mode].recv_emb
    /\ gcc_q # <<>>
    /\ gcc_q' = Tail(gcc_q)
    /\ LET embedding == Head(gcc_q)
           sock_fun_name == encode_fun_name(fun_name)
       IN /\ embeddings' =
                IF mode = "plain" /\ HasKey(active_funcs_lists, sock_fun_name)
                THEN MapPut(embeddings, sock_fun_name, PackInt(Len(embedding)) \o embedding)
                ELSE embeddings
          /\ xlog' = [xlog EXCEPT !.got = TRUE, !.payload = embedding]
    /\ pc' = PcOf[mode].loop
    /\ UNCHANGED <<exc, fatal, exit_code, timeout, afl_defined, active_funcs_lists, sizes,
                   runtimes, gcc_instance, fun_name, probe_idx, probes, send_idx, sent, diag,
                   gmon_out, gmon_sum, run_idx, cleanup_log, cycle>>
    /\ UNCHANGED <<signals, config_vars, env_q, bound, regs_sent, procs>>

(* ---------------- get_sizes, get_runtimes ---------------- *)
RECURSIVE SizesOf(_)
\* the loop over the lines of the size dump; a later line of the same token wins
SizesOf(rows) ==
    IF rows = <<>> THEN EmptyMap
    ELSE LET r == rows[Len(rows)] IN
         MapPut(SizesOf(SubSeq(rows, 1, Len(rows) - 1)), encode_fun_name(r.name), r.size)

RECURSIVE RowsOf(_)
RowsOf(rows) ==
    IF rows = <<>> THEN EmptyMap
    ELSE LET r == rows[Len(rows)] IN
         MapPut(RowsOf(SubSeq(rows, 1, Len(rows) - 1)), encode_fun_name(r.name),
                <<r.percent, r.seconds>>)

\* self.runtimes as get_runtimes builds it from the flat profile
RuntimesOf(rep, afl) ==
    IF rep.notime
    THEN [t \in {encode_fun_name(k) : k \in Keys(afl)} |-> <<0, 0>>]
    ELSE RowsOf(rep.rows)

\* the test of kernel_loop without the long-running subset
needs_runtimes_any == Keys(active_funcs_lists) # {}

\* the test of kernel_loop on the long-running functions
needs_runtimes == Keys(active_funcs_lists) \cap long_functions # {}

\* get_sizes that also takes a queued registration into the pass lists
get_sizes_merging ==
    /\ pc = "get_sizes"
    /\ \E rep \in NmReports : sizes' = SizesOf(rep)
    /\ IF needs_runtimes
       THEN /\ pc' = "ci_start"
            /\ UNCHANGED <<runtimes, send_idx>>
       ELSE /\ runtimes' = EmptyMap
            /\ pc' = "sendout"
            /\ send_idx' = 1
    /\ IF env_q = <<>>
       THEN UNCHANGED <<active_funcs_lists, env_q>>
       ELSE /\ active_funcs_lists' = add_env_to_list(active_funcs_lists, Head(env_q).data, Head(env_q).addr).afl
            /\ env_q' = Tail(env_q)
    /\ UNCHANGED <<exc, fatal, exit_code, timeout, afl_defined,
                   embeddings, gcc_instance, fun_name, xlog, probe_idx, probes, sent, diag,
                   gmon_out, gmon_sum, run_idx, cleanup_log, cycle>>
    /\ UNCHANGED <<signals, config_vars, bound, regs_sent, procs, gcc_q>>

\* get_sizes, and the branch of kernel_loop that follows it
get_sizes ==
    /\ pc = "get_sizes"
    /\ \E rep \in NmReports : sizes' = SizesOf(rep)
    /\ IF needs_runtimes
       THEN /\ pc' = "ci_start"
            /\ UNCHANGED <<runtimes, send_idx>>
       ELSE /\ runtimes' = EmptyMap
            /\ pc' = "sendout"
            /\ send_idx' = 1
    /\ UNCHANGED <<exc, fatal, exit_code, timeout, afl_defined, active_funcs_lists,
                   embeddings, gcc_instance, fun_name, xlog, probe_idx, probes, sent, diag,
                   gmon_out, gmon_sum, run_idx, cleanup_log, cycle>>
    /\ UNCHANGED <<signals, config_vars, env_q, bound, regs_sent, procs, gcc_q>>

\* One run of the instrumented binary and the merge of its profile into gmon.sum
\* (check=True): "ok", "norun" (the run left no gmon.out), "toolfail".
profile_run ==
    /\ pc = "gr_run"
    /\ run_idx < MaxRuns
    /\ \E outcome \in {"ok", "norun", "toolfail"} :
          /\ gmon_out' = IF outcome = "norun" THEN gmon_out ELSE TRUE
          /\ IF outcome = "ok" \/ (outcome = "norun" /\ gmon_out)
             THEN /\ gmon_sum' = TRUE
                  /\ run_idx' = run_idx + 1
                  /\ UNCHANGED <<pc, exc, fatal>>
             ELSE /\ Raise("CalledProcessError", "profiler")
                  /\ UNCHANGED <<gmon_sum, run_idx>>
    /\ UNCHANGED <<exit_code, timeout, afl_defined, active_funcs_lists, embeddings, sizes,
                   runtimes, gcc_instance, fun_name, xlog, probe_idx, probes, send_idx, sent,
                   diag, cleanup_log, cycle>>
    /\ UNCHANGED <<signals, config_vars, env_q, bound, regs_sent, procs, gcc_q>>

\* The flat profile (check=True), the two unlinks and the parse.
profile_report ==
    /\ pc = "gr_run"
    /\ run_idx = MaxRuns
    /\ \/ /\ Raise("CalledProcessError", "profiler")
          /\ UNCHANGED <<gmon_out, gmon_sum, runtimes, send_idx>>
       \/ /\ gmon_sum
          /\ \E rep \in GprofReports : runtimes' = RuntimesOf(rep, active_funcs_lists)
          /\ gmon_out' = FALSE
          /\ gmon_sum' = FALSE
          /\ pc' = "sendout"
          /\ send_idx' = 1
          /\ UNCHANGED <<exc, fatal>>
    /\ UNCHANGED <<exit_code, timeout, afl_defined, active_funcs_lists, embeddings, sizes,
                   gcc_instance, fun_name, xlog, probe_idx, probes, sent, diag, run_idx,
                   cleanup_log, cycle>>
    /\ UNCHANGED <<signals, config_vars, env_q, bound, regs_sent, procs, gcc_q>>

(* ---------------- sendout_profiles ---------------- *)
\* The for loop moves to the next key; after the last one the cycle is over.
sendout_next ==
    IF send_idx < Len(active_funcs_lists)
    THEN /\ send_idx' = send_idx + 1
         /\ UNCHANGED <<pc, cycle>>
    ELSE /\ pc' = "loop_head"
         /\ cycle' = cycle + 1
         /\ UNCHANGED send_idx

\* The datagram of one function: the stored embedding, then the packed record.
profile_message(k, sz) ==
    LET rt == IF k \in DOMAIN runtimes THEN runtimes[k] ELSE <<0, 0>>
    IN embeddings[k] \o PackRecord(rt[1], rt[2], sz[k])

\* One iteration of the for loop over self.active_funcs_lists.
sendout_step ==
    /\ pc = "sendout"
    /\ LET k == active_funcs_lists[send_idx].k
           to == Utf8Encode(ComposeAddr(k))
           missing == k \notin DOMAIN sizes
           sz == IF missing THEN MapPut(sizes, k, 0) ELSE sizes
       IN /\ sizes' = sz
          /\ diag' = IF missing THEN diag \cup {k} ELSE diag
          /\ IF k \notin DOMAIN embeddings
             THEN /\ Raise("KeyError", "dispatch")
                  /\ UNCHANGED <<sent, send_idx, cycle>>
             ELSE /\ sent' = Append(sent, [key |-> k, to |-> to,
                                           msg |-> profile_message(k, sz),
                                           ok |-> to \in bound])
                  /\ sendout_next
                  /\ UNCHANGED <<exc, fatal>>
    /\ UNCHANGED <<exit_code, timeout, afl_defined, active_funcs_lists, embeddings,
                   runtimes, gcc_instance, fun_name, xlog, probe_idx, probes, gmon_out,
                   gmon_sum, run_idx, cleanup_log>>
    /\ UNCHANGED <<signals, config_vars, env_q, bound, regs_sent, procs, gcc_q>>

(* ---------------- signals ---------------- *)
CleanupPcs == {"cleanup", "cleanup_rm"}

\* sigterm_handler raises SystemExit(1), default_int_handler KeyboardInterrupt, in
\* the main thread at the point it has reached. In the probe loop the bare except
\* catches either when it arrives inside the try, before the sendto or after it
\* has returned and before the break; inside final_cleanup nothing does.
signal(sig) ==
    /\ pc # "done"
    /\ signals < MaxSignals
    /\ signals' = signals + 1
    /\ LET e == IF sig = "SIGTERM" THEN "SystemExit(1)" ELSE "KeyboardInterrupt" IN
       IF pc \in CleanupPcs
       THEN /\ process_ends(ExitCodeOf(e))
            /\ UNCHANGED cleanup_log
       ELSE /\ \/ Raise(e, "signal") /\ UNCHANGED <<probe_idx, probes>>
               \/ /\ pc = "probe"
                  /\ probe_failed
                  /\ \/ UNCHANGED probes
                     \/ /\ Utf8Encode(ComposeAddr(bench_symbols[probe_idx])) \in bound
                        /\ probes' = Append(probes, [sym |-> bench_symbols[probe_idx], ok |-> TRUE])
            /\ UNCHANGED <<exit_code, timeout, afl_defined, active_funcs_lists, embeddings,
                           sizes, runtimes, gcc_instance, fun_name, xlog, send_idx,
                           sent, diag, gmon_out, gmon_sum, run_idx, cleanup_log, cycle>>
            /\ UNCHANGED <<config_vars, env_q, bound, regs_sent, procs, gcc_q>>

(* ---------------- peers (environment) ---------------- *)
\* Where the model lets a registration arrive: while the kernel gathers and, for
\* the arrivals after the snapshot is closed, in the plain build and in dispatch
\* (the kernel sees an arrival only at its next recvfrom).
RegisterPcs == {"wait_first", "collecting", "cfs_loop", "sendout"}

\* A datagram reaches the kernel's endpoint; a peer's own address is bound while it
\* sends. A datagram from a stray address ends the kernel when it is read, so
\* the model queues one only behind nothing.
peer_register(a, pl) ==
    /\ pc \in RegisterPcs
    /\ regs_sent < MaxRegs
    /\ \/ a \in bound
       \/ a \in StrayAddrs /\ env_q = <<>> /\ pc \in {"wait_first", "collecting"}
    /\ env_q' = Append(env_q, [data |-> pl, addr |-> a])
    /\ regs_sent' = regs_sent + 1
    /\ UNCHANGED <<kernel_vars, signals, config_vars, bound, procs, gcc_q>>

\* A peer goes away. The kernel sees it only by a send, so the model lets it
\* happen where the kernel sends to peers.
peer_dies(a) ==
    /\ pc \in {"probe", "sendout"}
    /\ a \in bound
    /\ bound' = bound \ {a}
    /\ UNCHANGED <<kernel_vars, signals, config_vars, env_q, regs_sent, procs, gcc_q>>

(* ---------------- the specification ---------------- *)
compile_for_size ==
    \/ popen("plain")
    \/ handshake("plain")
    \/ exchange_exit("plain")
    \/ exchange_recv("plain")
    \/ exchange_reply("plain")
    \/ exchange_recv_emb("plain")

compile_instrumented ==
    \/ popen("instr")
    \/ handshake("instr")
    \/ exchange_exit("instr")
    \/ exchange_recv("instr")
    \/ exchange_reply("instr")
    \/ exchange_recv_emb("instr")

gather_active_envs ==
    \/ gather_reset
    \/ recv_first
    \/ recv_more
    \/ first_wait_timeout
    \/ collect_timeout
    \/ probe_step

get_runtimes == profile_run \/ profile_report

final_cleanup == cleanup_wait \/ cleanup_remove

Kernel ==
    \/ gather_active_envs
    \/ compile_for_size
    \/ get_sizes
    \/ compile_instrumented
    \/ get_runtimes
    \/ sendout_step
    \/ final_cleanup

Compiler ==
    \E p \in 1..Len(procs) :
        \/ gcc_listen(p)
        \/ \E q \in QueryNames : gcc_query(p, q)
        \/ \E e \in Embeddings : gcc_embed(p, e)
        \/ \E rc \in {0, 1} : gcc_exit(p, rc)

Peers ==
    \/ \E a \in PeerAddrs \cup StrayAddrs : \E pl \in PassLists(a) : peer_register(a, pl)
    \/ \E a \in PeerAddrs : peer_dies(a)

Signals == \E sig \in {"SIGTERM", "SIGINT"} : signal(sig)

Next == Kernel \/ Compiler \/ Peers \/ Signals

Spec == Init /\ [][Next]_vars

(* ---------------- encode_fun_name over names, benchmark names and instances ---------------- *)
Rep(c, n) == [i \in 1..n |-> c]

\* -n: benchmark names of 1, 4, 5 and 62 characters
BenchNames == {Rep(Chr.b, n) : n \in {1, 4, 5, 62}}

\* -i
Instances == {1, 10}

\* Symbol names: ASCII names around the length limits, clones with a suffix after
\* a '.', a name that is only a suffix, and a name of 60 two-byte characters.
EncNames ==
    {Rep(Chr.x, n) : n \in {1, 41, 42, 43, 44, 98, 99, 100, 101, 102, 103, 104}}
        \cup {Rep(Chr.x, n) \o <<Chr.dot, Chr.c>> : n \in {98, 99, 100, 103}}
        \cup {<<Chr.dot, Chr.c>>, Rep(233, 60)}

InitEncode ==
    /\ InitKernel
    /\ \E bn \in BenchNames : \E inst \in Instances : enc = NoCall(bn, inst)

\* One call of encode_fun_name(n) by the kernel configured as enc says.
encode_call(n) ==
    /\ enc' = [enc EXCEPT !.name = n,
                          !.out = encode_fun_name_for(enc.bench_name, enc.instance, n),
                          !.calls = 1]
    /\ UNCHANGED <<kernel_vars, signals, long_functions, env_q, bound, regs_sent, procs, gcc_q>>

NextEncode == \E n \in EncNames : encode_call(n)

SpecEncode == InitEncode /\ [][NextEncode]_vars

(* ---------------- what the claims speak of ---------------- *)
\* <benchmark_name>:<key>_<instance>, as bytes
CanonicalAddr(k) == Utf8Encode(ComposeAddr(k))

KnownSenders == {CanonicalAddr(bench_symbols[i]) : i \in 1..Len(bench_symbols)}

SendsTo(k) == {i \in 1..Len(sent) : sent[i].key = k}

\* The dispatch of a cycle has run to its end, or an exception of its own ended it.
DispatchOver == (pc = "loop_head" /\ cycle > 0) \/ (pc = "cleanup" /\ fatal = "dispatch")

ExitPcs == {"cleanup", "cleanup_rm", "done"}

Removals == {"rmtree", "unlink"}

CleanupComplete == cleanup_log # <<>> /\ cleanup_log[Len(cleanup_log)].op \in Removals

LoopPcs == {"cfs_loop", "ci_loop"}
ReplyPcs == {"cfs_reply", "ci_reply"}
RecvEmbPcs == {"cfs_recv_emb", "ci_recv_emb"}
HandshakePcs == {"cfs_handshake", "ci_handshake"}
PlainPcs == {"cfs_loop", "cfs_reply", "cfs_recv_emb"}

\* The record the dispatcher owes key k: its size (0 when the dump has none), its
\* runtime ((0.0, 0.0) when the profile has none), after its stored embedding.
OwedMessage(k) ==
    LET rt == IF k \in DOMAIN runtimes THEN runtimes[k] ELSE <<0, 0>>
        sz == IF k \in DOMAIN sizes THEN sizes[k] ELSE 0
    IN embeddings[k] \o PackDouble(rt[1]) \o PackDouble(rt[2]) \o PackInt(sz)

(* ---------------- C1 ---------------- *)
\* C1: when a result could not be delivered to one peer, every other key of
\* ActiveFuncsLists still has a result datagram with its own record sent to its
\* canonical address in that dispatch, wherever the failing peer stands in the order.
C1_DeliveryFailureSparesOthers ==
    DispatchOver =>
        \A i \in 1..Len(sent) :
            ~sent[i].ok =>
                \A k \in Keys(active_funcs_lists) \ {sent[i].key} :
                    \E j \in SendsTo(k) :
                        /\ sent[j].to = CanonicalAddr(k)
                        /\ sent[j].msg = OwedMessage(k)

(* ---------------- C2 ---------------- *)
\* C2: in a cycle whose builds succeeded, exactly one result send is attempted for
\* every key of ActiveFuncsLists, to that key's canonical address, whether or not
\* the compiler asked about it, and none for anything that is not a key.
C2_OneResultPerActiveFunction ==
    DispatchOver =>
        /\ \A k \in Keys(active_funcs_lists) :
              /\ Cardinality(SendsTo(k)) = 1
              /\ \A i \in SendsTo(k) : sent[i].to = CanonicalAddr(k)
        /\ \A i \in 1..Len(sent) : sent[i].key \in Keys(active_funcs_lists)

(* ---------------- C3 ---------------- *)
\* C3: the kernel is terminated by an error only of the three fatal kinds (protocol
\* violation, compiler startup failure, compiler failure); nothing that arises in
\* dispatch (an unreachable peer, a missing size, runtime or embedding) or in the
\* profiling passes (a failing tool) ends it.
C3_OnlyFatalKindsTerminate == fatal \notin {"dispatch", "profiler"}

(* ---------------- C4 ---------------- *)
AllProbesFailed == Len(probes) = Len(bench_symbols) /\ \A i \in 1..Len(probes) : ~probes[i].ok

\* C4: when the first wait timed out and the probe of every known function failed,
\* the kernel is on its way out with exit(0) from that very pass: it has not gone
\* back to waiting, it starts no compiler, its cleanup can always take its next
\* step, and it ends with exit code 0 after the removal.
C4_NoPeersLeftExitsZero ==
    /\ AllProbesFailed => fatal = "no_peers"
    /\ fatal = "no_peers" =>
          /\ pc \in ExitPcs
          /\ exc = "SystemExit(0)"
          /\ Len(probes) <= Len(bench_symbols)
          /\ \A p \in 1..Len(procs) : procs[p].cyc < cycle
          /\ pc # "done" => ENABLED final_cleanup
          /\ (pc = "done" /\ CleanupComplete) => exit_code = 0
          /\ (pc = "done" /\ signals = 0) => CleanupComplete

\* C4 witness: the kernel has ended with code 0 after a pass in which both probes failed.
C4_Witness ==
    /\ pc = "done"
    /\ fatal = "no_peers"
    /\ AllProbesFailed
    /\ exit_code = 0
    /\ CleanupComplete

(* ---------------- C5 ---------------- *)
C5_Inv ==
    /\ Keys(active_funcs_lists) \subseteq Range(bench_symbols)
    /\ fatal = "protocol" =>
          /\ pc \in ExitPcs
          /\ ExitCodeOf(exc) = 1
          /\ \A p \in 1..Len(procs) : procs[p].cyc < cycle
          /\ (pc = "done" /\ CleanupComplete) => exit_code = 1

\* The kernel reads a registration whose sender is not the canonical address of a
\* known function: it is not stored and the kernel is on its way out.
C5_Act ==
    (/\ pc \in {"wait_first", "collecting"}
     /\ env_q # <<>>
     /\ env_q' = Tail(env_q)
     /\ Head(env_q).addr \notin KnownSenders)
    => (/\ active_funcs_lists' = active_funcs_lists
        /\ pc' = "cleanup"
        /\ fatal' = "protocol")

\* C5: a registration is validated before it is stored, in the first wait and while
\* collecting alike: one whose sender does not parse, or names another benchmark,
\* another instance or an unknown function, is not added and ends the kernel with
\* exit code 1 before any compiler of the cycle is started; the keys of
\* ActiveFuncsLists are always known symbols.
C5_RegistrationsValidated == []C5_Inv /\ [][C5_Act]_vars

\* C5 witness: a stray registration read while collecting, after a valid one, has
\* ended the kernel with code 1.
C5_Witness ==
    /\ pc = "done"
    /\ fatal = "protocol"
    /\ exit_code = 1
    /\ Len(active_funcs_lists) = 1
    /\ procs = <<>>

(* ---------------- C6 ---------------- *)
\* C6: at most one compiler subprocess is alive; every subprocess but the latest has
\* exited, so the instrumented build starts after the plain build of its cycle has
\* exited and the plain build of the next cycle after every build of this one.
C6_OneCompilerAtATime ==
    /\ Cardinality(Running) <= 1
    /\ \A p \in 1..Len(procs) : p < Len(procs) => procs[p].st = "exited"
    /\ \A p \in 1..Len(procs) :
          procs[p].mode = "instr" =>
              /\ p > 1
              /\ procs[p - 1].mode = "plain"
              /\ procs[p - 1].cyc = procs[p].cyc
    /\ \A p, q \in 1..Len(procs) : p < q => procs[p].cyc <= procs[q].cyc

\* C6 witness: the plain build of the second cycle runs after a plain and an
\* instrumented build of the first.
C6_Witness ==
    /\ Len(procs) = 3
    /\ procs[2].mode = "instr"
    /\ procs[3].st = "asked"
    /\ procs[3].cyc = 1

(* ---------------- C7 ---------------- *)
\* The kernel has left build p behind and gone on with the pipeline.
PastBuild(p) ==
    \/ p < gcc_instance
    \/ /\ p = gcc_instance
       /\ pc \in (IF procs[p].mode = "plain"
                  THEN {"get_sizes", "ci_start", "sendout", "loop_head"}
                  ELSE {"gr_run", "sendout", "loop_head"})

\* C7: a compiler that exits before its endpoint is seen, or with a status other
\* than 0, ends the kernel with exit code 1: no result of that cycle is sent, no
\* further compiler is started, and the pipeline never goes on past a build whose
\* compiler did not listen or did not exit with 0.
C7_BuildFailureIsFatal ==
    /\ fatal \in {"startup", "gcc_failed"} =>
          /\ pc \in ExitPcs
          /\ exc = "SystemExit(1)"
          /\ sent = <<>>
          /\ gcc_instance = Len(procs)
          /\ procs[gcc_instance].st = "exited"
          /\ fatal = "gcc_failed" => procs[gcc_instance].rc # 0
          /\ (pc = "done" /\ CleanupComplete) => exit_code = 1
    /\ \A p \in 1..Len(procs) :
          PastBuild(p) =>
              /\ procs[p].listened
              /\ procs[p].st = "exited"
              /\ procs[p].rc = 0
    /\ pc \in LoopPcs \cup ReplyPcs \cup RecvEmbPcs => procs[gcc_instance].listened

\* C7 witness: the instrumented build's compiler failed and the kernel ended with 1.
C7_Witness ==
    /\ pc = "done"
    /\ fatal = "gcc_failed"
    /\ exit_code = 1
    /\ procs[gcc_instance].mode = "instr"
    /\ procs[gcc_instance].rc = 1

(* ---------------- C8 ---------------- *)
\* C8: in the exchange loop the bridge reads the next query only when the last one
\* has its reply and its payload; the reply is the pass list stored under
\* encode(query), or one zero byte when there is none; in the plain build the
\* payload received after a pass list is stored, length first, under encode(query);
\* never is more than one query without its reply.
C8_OneReplyPerQuery ==
    pc \in LoopPcs \cup ReplyPcs \cup RecvEmbPcs =>
        LET key == encode_fun_name(xlog.query) IN
        /\ xlog.replies <= xlog.reads
        /\ xlog.reads <= xlog.replies + 1
        /\ pc \in LoopPcs =>
              /\ xlog.reads = xlog.replies
              /\ xlog.reads > 0 => (xlog.replied /\ xlog.got)
        /\ pc \in ReplyPcs => (xlog.reads = xlog.replies + 1 /\ ~xlog.replied)
        /\ pc \in RecvEmbPcs => (xlog.reads = xlog.replies /\ xlog.replied /\ ~xlog.got)
        /\ xlog.replied =>
              xlog.reply = (IF key \in Keys(active_funcs_lists)
                            THEN Get(active_funcs_lists, key)
                            ELSE <<0>>)
        /\ (pc \in PlainPcs /\ xlog.got /\ key \in Keys(active_funcs_lists)) =>
              /\ key \in DOMAIN embeddings
              /\ embeddings[key] = PackInt(Len(xlog.payload)) \o xlog.payload

\* C8 witness: the plain build has served two queries, the second for the clone f.c
\* of the registered f, answered with f's pass list.
C8_Witness ==
    /\ pc = "cfs_loop"
    /\ xlog.reads = 2
    /\ xlog.got
    /\ xlog.query = <<Chr.f, Chr.dot, Chr.c>>
    /\ xlog.reply = <<1, 2>>
    /\ <<Chr.f>> \in DOMAIN embeddings

(* ---------------- C9 ---------------- *)
\* C9: wherever in the exchange the compiler exits, the bridge is not left waiting
\* for a message: the kernel can take a step that observes the exit.
C9_BridgeNeverBlocks ==
    (/\ pc \in HandshakePcs \cup LoopPcs \cup ReplyPcs \cup RecvEmbPcs
     /\ procs[gcc_instance].st = "exited")
    => ENABLED Kernel

(* ---------------- C10 ---------------- *)
\* What final_cleanup owes: the print only in front, the bounded wait when a
\* compiler was started, then one removal chosen by the working directory.
CleanupInOrder ==
    LET body == IF cleanup_log # <<>> /\ cleanup_log[1].op = "print"
                THEN Tail(cleanup_log)
                ELSE cleanup_log
        rm == body[Len(body)]
    IN /\ Len(body) = (IF gcc_instance # 0 THEN 2 ELSE 1)
       /\ gcc_instance # 0 => body[1] = [op |-> "wait", arg |-> <<30>>]
       /\ rm.op = (IF under_scratch(rm.arg) THEN "rmtree" ELSE "unlink")

\* C10: however the kernel loop is left, the process ends with the cleanup done once
\* and in order: the started compiler waited on for at most 30 s, then exactly one
\* removal, never none.
C10_CleanupOnEveryExit == pc = "done" => CleanupInOrder

(* ---------------- C11 ---------------- *)
\* C11: once a SIGTERM or SIGINT has been delivered while the kernel loop runs, the
\* loop is aborted: the kernel is in its cleanup or has ended, it goes on with no
\* phase and no probe, and it ends with a status other than 0.
C11_SignalAbortsLoop ==
    signals > 0 =>
        /\ pc \in ExitPcs
        /\ pc = "done" => exit_code # 0

(* ---------------- C12 ---------------- *)
PrintsOf(log) == {i \in 1..Len(log) : log[i].op = "print"}

\* C12: when the kernel has ended after a complete cleanup, a fatal termination
\* (protocol violation, an address that does not parse included; compiler startup
\* failure; compiler failure) has printed ActiveFuncsLists exactly once, first of
\* all, and ended with a status other than 0; an end with status 0 printed nothing.
C12_FatalPrintsMapOnce ==
    (pc = "done" /\ CleanupComplete) =>
        /\ fatal \in {"protocol", "startup", "gcc_failed"} =>
              /\ PrintsOf(cleanup_log) = {1}
              /\ exit_code # 0
        /\ exit_code = 0 => PrintsOf(cleanup_log) = {}

(* ---------------- C13 ---------------- *)
C13_Inv ==
    /\ pc \in {"wait_first", "probe"} => active_funcs_lists = <<>>
    /\ (pc = "cfs_handshake" \/ (pc = "cfs_loop" /\ xlog.reads = 0)) => embeddings = EmptyMap
    /\ pc \in PlainPcs => DOMAIN embeddings \subseteq Keys(active_funcs_lists)
    /\ (pc = "sendout" /\ ~needs_runtimes) => runtimes = EmptyMap
    /\ (pc = "sendout" \/ (pc = "loop_head" /\ cycle > 0)) =>
          \A i \in 1..Len(sent) :
              /\ sent[i].key \in Keys(active_funcs_lists)
              /\ sent[i].msg = OwedMessage(sent[i].key)

\* The tables are rebuilt, not merged: the size pass leaves the sizes of one dump,
\* the runtime pass the runtimes of one profile, the plain build starts from no
\* embedding, and a consumed registration is the only thing that adds a key.
C13_Act ==
    /\ (pc = "get_sizes" /\ pc' \in {"ci_start", "sendout"}) =>
          \E rep \in NmReports : sizes' = SizesOf(rep)
    /\ (pc = "gr_run" /\ pc' = "sendout") =>
          \E rep \in GprofReports : runtimes' = RuntimesOf(rep, active_funcs_lists)
    /\ (pc = "cfs_start" /\ pc' = "cfs_handshake") => embeddings' = EmptyMap
    /\ (active_funcs_lists' # active_funcs_lists /\ active_funcs_lists' # <<>>) =>
          /\ pc \in {"wait_first", "collecting"}
          /\ pc' = "collecting"
          /\ env_q # <<>>
          /\ env_q' = Tail(env_q)
          /\ Keys(active_funcs_lists') \subseteq
                Keys(active_funcs_lists) \cup {k \in Range(bench_symbols) : CanonicalAddr(k) = Head(env_q).addr}
    /\ (active_funcs_lists' # active_funcs_lists /\ active_funcs_lists' = <<>>) =>
          pc' = "wait_first"

\* C13: the four per-cycle tables are reset before their first read in a cycle:
\* the gather phase starts from an empty ActiveFuncsLists, the plain build from no
\* embedding, the size and runtime passes replace their table, a cycle without an
\* instrumented build dispatches with an empty RuntimeTable; results go only to
\* the keys registered in this cycle and carry only this cycle's tables.
C13_CyclesIndependent == []C13_Inv /\ [][C13_Act]_vars

\* C13 witness: the first cycle served f with an instrumented build; the second
\* cycle, in which only g registered, has ended with one result, for g, with no
\* runtimes and only its own plain build.
C13_Witness ==
    /\ pc = "loop_head"
    /\ cycle = 2
    /\ Len(procs) = 3
    /\ procs[2].mode = "instr"
    /\ Keys(active_funcs_lists) = {<<Chr.g>>}
    /\ Len(sent) = 1
    /\ sent[1].key = <<Chr.g>>
    /\ runtimes = EmptyMap

(* ---------------- C14 ---------------- *)
\* The long-running subset a descriptor declares: the lines between its two
\* headers, or every known function when it has no "long_functions:" line.
DeclaredLong(lines) ==
    LET index == IndexOf(lines, FunctionsHeader)
        long_fun_index == IndexOf(lines, LongHeader)
    IN IF long_fun_index = 0
       THEN Range(bench_symbols)
       ELSE {encode_fun_name(lines[i]) : i \in (long_fun_index + 1)..(index - 1)}

\* The kernel intersects ActiveFuncsLists with the declared subset.
IntersectsDeclared ==
    \E d \in Descriptors :
        /\ long_functions = long_functions_of(d)
        /\ Keys(active_funcs_lists) \cap DeclaredLong(d) # {}

InstrPcs == {"ci_start", "ci_handshake", "ci_loop", "ci_reply", "ci_recv_emb", "gr_run"}

\* An instrumented build was started in cycle c.
InstrIn(c) == \E p \in 1..Len(procs) : procs[p].mode = "instr" /\ procs[p].cyc = c

\* A plain build of cycle c was started, listened and exited with status 0.
PlainDoneIn(c) ==
    \E p \in 1..Len(procs) :
        /\ procs[p].mode = "plain"
        /\ procs[p].cyc = c
        /\ procs[p].st = "exited"
        /\ procs[p].rc = 0

C14_Inv ==
    /\ pc \in InstrPcs => (IntersectsDeclared /\ PlainDoneIn(cycle))
    /\ pc = "sendout" => (InstrIn(cycle) <=> IntersectsDeclared)
    /\ (pc = "loop_head" /\ cycle > 0) => (InstrIn(cycle - 1) <=> IntersectsDeclared)
    /\ (pc = "sendout" /\ ~InstrIn(cycle)) =>
          /\ runtimes = EmptyMap
          /\ \A i \in 1..Len(sent) :
                sent[i].msg = embeddings[sent[i].key] \o PackDouble(0) \o PackDouble(0)
                                 \o PackInt(sizes[sent[i].key])
    /\ (pc = "loop_head" /\ cycle > 0 /\ ~InstrIn(cycle - 1)) =>
          /\ runtimes = EmptyMap
          /\ \A i \in 1..Len(sent) :
                sent[i].msg = embeddings[sent[i].key] \o PackDouble(0) \o PackDouble(0)
                                 \o PackInt(sizes[sent[i].key])

\* The instrumented build is entered from the size pass only, which is entered
\* from the plain build's exit only; the runtime pass from the instrumented build.
C14_Act ==
    /\ (pc' = "ci_start" /\ pc # "ci_start") =>
          (pc = "get_sizes" /\ \E rep \in NmReports : sizes' = SizesOf(rep))
    /\ (pc' = "get_sizes" /\ pc # "get_sizes") => (pc = "cfs_loop" /\ PlainDoneIn(cycle))
    /\ (pc' = "gr_run" /\ pc # "gr_run") => pc = "ci_loop"

\* C14: the instrumented build and the runtime pass run in a cycle exactly when a
\* key of ActiveFuncsLists is in the declared long-running subset (all known
\* functions when none is declared); without them RuntimeTable is empty and every
\* result of the cycle carries runtime (0.0, 0.0); with them, they start after the
\* plain build and the size pass of the same cycle.
C14_InstrumentedIffLongRunning == []C14_Inv /\ [][C14_Act]_vars

\* C14 witness: with f declared long-running, a cycle for g alone ran without an
\* instrumented build and the next cycle, for f, with one.
C14_Witness ==
    /\ pc = "loop_head"
    /\ cycle = 2
    /\ long_functions = long_functions_of(DescWithLong)
    /\ Len(procs) = 3
    /\ procs[1].cyc = 0
    /\ procs[2].cyc = 1
    /\ procs[3].mode = "instr"
    /\ Keys(active_funcs_lists) = {<<Chr.f>>}
    /\ Len(sent) = 1

(* ---------------- C15 ---------------- *)
\* C15: whatever the function name, the benchmark name and the instance, the token
\* encode returns has at most 100 characters and the address the kernel composes
\* from it has at most 108 bytes.
C15_TokenAndAddressFit ==
    enc.calls > 0 =>
        /\ Len(enc.out) <= 100
        /\ Len(Utf8Encode(ComposeAddrFor(enc.bench_name, enc.instance, enc.out))) <= 108

(* ---------------- C16 ---------------- *)
\* The hash token: 43 characters of the URL-safe alphabet and the padding '='.
IsHashToken(s) ==
    /\ Len(s) = 44
    /\ s[44] = Chr.eq
    /\ \A i \in 1..43 : s[i] \in Range(B64Alphabet)

\* C16 as stated: with budget = 108 - len(benchmark_name) - len(str(instance)) - 2,
\* encode returns the name stripped from its first '.' on when that has at most
\* budget and at most 100 characters, the hash token of it otherwise.
C16_Budget108 ==
    enc.calls > 0 =>
        LET stripped == Partition(enc.name)
            budget == 108 - Len(enc.bench_name) - Len(IntToStr(enc.instance)) - 2
        IN IF Len(stripped) <= budget /\ Len(stripped) <= 100
           THEN enc.out = stripped
           ELSE enc.out = B64Sha256(stripped) /\ IsHashToken(enc.out)

\* C16 amended: the same with budget = 107 - len(benchmark_name) -
\* len(str(instance)) - 2, lengths counted in characters; a stripped name of
\* exactly budget characters (and at most 100) is returned unchanged.
C16_Budget107 ==
    enc.calls > 0 =>
        LET stripped == Partition(enc.name)
            budget == 107 - Len(enc.bench_name) - Len(IntToStr(enc.instance)) - 2
        IN /\ Chr.dot \notin Range(stripped)
           /\ stripped \o SubSeq(enc.name, Len(stripped) + 1, Len(enc.name)) = enc.name
           /\ Len(stripped) < Len(enc.name) => enc.name[Len(stripped) + 1] = Chr.dot
           /\ IF Len(stripped) <= budget /\ Len(stripped) <= 100
              THEN enc.out = stripped
              ELSE enc.out = B64Sha256(stripped) /\ IsHashToken(enc.out)

\* C16 witness: a clone name whose part before the '.' has exactly budget
\* characters came back as that part.
C16_Witness ==
    /\ enc.calls > 0
    /\ Chr.dot \in Range(enc.name)
    /\ Len(enc.out) = 107 - Len(enc.bench_name) - Len(IntToStr(enc.instance)) - 2
    /\ enc.out = Rep(Chr.x, Len(enc.out))
    /\ enc.out \o <<Chr.dot, Chr.c>> = enc.name

(* ---------------- C17 ---------------- *)
Suffix(s, n) == SubSeq(s, Len(s) - n + 1, Len(s))

\* C17: when a dispatch is over, every active function reported as lacking a size
\* has a result sent with size 0, and every active function lacking a runtime has
\* a result sent with runtime (0.0, 0.0): the record, the last 20 bytes of the
\* datagram, is two doubles and an integer.
C17_MissingMetricDefaults ==
    DispatchOver =>
        \A k \in Keys(active_funcs_lists) :
            /\ k \in diag =>
                  \E i \in SendsTo(k) : Suffix(sent[i].msg, 4) = PackInt(0)
            /\ k \notin DOMAIN runtimes =>
                  \E i \in SendsTo(k) :
                      SubSeq(Suffix(sent[i].msg, 20), 1, 16) = PackDouble(0) \o PackDouble(0)

(* ---------------- C18 ---------------- *)
\* The position of a token in the declared order.
DeclaredIndex(sym) == IndexOf(bench_symbols, sym)

StartedPcs ==
    {"cfs_start", "cfs_handshake", "get_sizes", "sendout"} \cup PlainPcs \cup InstrPcs

\* C18: the prober runs with no registration consumed; the probes of a pass go to
\* known functions in the declared order, each at most once, and none follows an
\* accepted one; back in the first wait ActiveFuncsLists is empty; a compiler is
\* started, and the pipeline runs, only with a non-empty ActiveFuncsLists.
C18_ProberStopsAtFirstAccepted ==
    /\ pc \in {"probe", "wait_first"} => active_funcs_lists = <<>>
    /\ \A i \in 1..Len(probes) : probes[i].sym \in Range(bench_symbols)
    /\ \A i, j \in 1..Len(probes) :
          i < j => DeclaredIndex(probes[i].sym) < DeclaredIndex(probes[j].sym)
    /\ \A i \in 1..Len(probes) : i < Len(probes) => ~probes[i].ok
    /\ pc \in StartedPcs => active_funcs_lists # <<>>

(* ---------------- C19 ---------------- *)
IsPrefix(s, u) == Len(s) <= Len(u) /\ SubSeq(u, 1, Len(s)) = s

\* From CLOSED to the end of dispatch nothing changes ActiveFuncsLists and nothing
\* is taken from the kernel's socket: what arrives stays queued.
C19_Act ==
    /\ pc \in StartedPcs =>
          /\ active_funcs_lists' = active_funcs_lists
          /\ IsPrefix(env_q, env_q')
    /\ (pc = "loop_head" /\ pc' # pc /\ pc' \notin ExitPcs) => (pc' = "wait_first" /\ env_q' = env_q)
    /\ (pc = "wait_first" /\ env_q # <<>> /\ pc' # pc /\ signals' = signals) =>
          /\ env_q' = Tail(env_q)
          /\ pc' = "collecting" =>
                Get(active_funcs_lists', active_funcs_lists'[1].k) = Head(env_q).data

C19_Inv ==
    /\ (pc = "sendout" \/ (pc = "loop_head" /\ cycle > 0)) =>
          \A i \in 1..Len(sent) : sent[i].key \in Keys(active_funcs_lists)

\* C19: once the registry is CLOSED, the builds, the passes and the dispatch leave
\* ActiveFuncsLists as it is; a registration that arrives then stays queued, gets
\* no result of its own in this cycle, and is what the first wait of the next
\* cycle reads.
C19_ClosedSnapshotFrozen == []C19_Inv /\ [][C19_Act]_vars

\* C19 witness: a cycle for f alone has ended with one result while a registration
\* of g, arrived after CLOSED, is still queued for the next cycle.
C19_Witness ==
    /\ pc = "loop_head"
    /\ cycle = 1
    /\ Keys(active_funcs_lists) = {<<Chr.f>>}
    /\ Len(sent) = 1
    /\ env_q # <<>>
    /\ Head(env_q).addr = AddrG

(* ---------------- C20 ---------------- *)
\* The registry's state, read off the kernel's position.
Registry ==
    IF pc \in {"wait_first", "probe"} THEN "WAITING_FIRST"
    ELSE IF pc = "collecting" THEN "COLLECTING"
    ELSE IF pc \in StartedPcs THEN "CLOSED"
    ELSE "NONE"

\* The kernel reads the datagram at the head of its queue.
ReadsRegistration == env_q # <<>> /\ env_q' = Tail(env_q) /\ pc \in {"wait_first", "collecting"}

\* What bounds the stay in COLLECTING: the registrations peers may still send,
\* then the ones queued.
Pending == (2 * (MaxRegs - regs_sent)) + Len(env_q)

C20_Act ==
    /\ (pc = "collecting" /\ pc' = "collecting") => Pending' < Pending
    /\ (Registry = "WAITING_FIRST" /\ Registry' # Registry) =>
          \/ pc' \in ExitPcs
          \/ Registry' = "COLLECTING" /\ ReadsRegistration /\ Head(env_q).addr \in KnownSenders
    /\ (Registry = "COLLECTING" /\ Registry' # Registry) =>
          \/ pc' \in ExitPcs
          \/ /\ pc' = "cfs_start"
             /\ env_q = <<>>
             /\ env_q' = env_q
             /\ active_funcs_lists' = active_funcs_lists
    /\ (Registry = "CLOSED" /\ Registry' # Registry) => (pc' \in ExitPcs \/ pc' = "loop_head")
    /\ (ReadsRegistration /\ Head(env_q).addr \in KnownSenders) =>
          LET key == CHOOSE k \in Range(bench_symbols) : CanonicalAddr(k) = Head(env_q).addr IN
          /\ pc' = "collecting"
          /\ timeout' = 5
          /\ Keys(active_funcs_lists') = Keys(active_funcs_lists) \cup {key}
          /\ Get(active_funcs_lists', key) = Head(env_q).data
          /\ \A k \in Keys(active_funcs_lists) \ {key} :
                Get(active_funcs_lists', k) = Get(active_funcs_lists, k)

C20_Inv ==
    /\ pc = "collecting" => (timeout = 5 /\ active_funcs_lists # <<>> /\ Pending >= 0)
    /\ pc = "wait_first" => timeout = 60

\* C20: within a cycle the registry goes WAITING_FIRST, COLLECTING, CLOSED and no
\* other way; a valid registration read in either of the first two is stored under
\* its function token, replacing an earlier payload of that token, and (re)starts
\* the 5 s window; CLOSED is entered from COLLECTING when a window elapses with
\* nothing queued; every step taken in COLLECTING uses up a registration sent or
\* still to be sent, so with finitely many of them the registry does not stay there.
C20_RegistryStateMachine == []C20_Inv /\ [][C20_Act]_vars

\* C20 witness: the registry closed after two registrations of f were read, the
\* second one in COLLECTING.
C20_Witness ==
    /\ pc = "cfs_start"
    /\ cycle = 0
    /\ regs_sent = 2
    /\ env_q = <<>>
    /\ Keys(active_funcs_lists) = {<<Chr.f>>}
    /\ Get(active_funcs_lists, <<Chr.f>>) = <<3>>

(* ---------------- C21 ---------------- *)
\* The runtime pass has just ended: with its table built, or by the exception of
\* a failing profiling tool.
RuntimePassEnded ==
    \/ pc = "sendout" /\ InstrIn(cycle)
    \/ pc = "cleanup" /\ fatal = "profiler"

\* C21: when the runtime pass has ended, with a parsed report, with a report of no
\* accumulated time or with a failure of the profiling tool, neither the per-run
\* profile nor the merged profile exists.
C21_ProfileArtifactsRemoved == RuntimePassEnded => (~gmon_out /\ ~gmon_sum)

====
